---- MODULE Spec2Model ----
(***************************************************************************)
(* Daily digest: the phase state machine (ProjectStateManager), the        *)
(* relevance scorer (ranking) and the orchestration pass                   *)
(* (DigestPipeline.generate_digest) over the JSON store (Storage).         *)
(*                                                                         *)
(* Time is counted in units of 8 hours (the half-life of temporal_decay),  *)
(* so that the decay of a message that is k units old is exactly 2^-k.     *)
(* A score is kept as the exact rational  m * 2^-k / ScoreDen.             *)
(***************************************************************************)
EXTENDS Integers, Sequences, FiniteSets, TLC

(* ------------------------------------------------------------------ *)
(* Time                                                               *)
(* ------------------------------------------------------------------ *)
HalfLifeHours == 8
Day == 24 \div HalfLifeHours
Week == 7 * Day
Fortnight == 14 * Day
Now0 == 16 * Day
MaxNow == Now0 + Fortnight
BadTs == 0 - 1

(* bounds of the model *)
MaxMsgs == 2
MaxPasses == 2

(* ------------------------------------------------------------------ *)
(* The data files: users.json, projects.json                          *)
(* ------------------------------------------------------------------ *)
Users == {"alice", "bob"}

users_json ==
    << [user_id |-> "alice", name |-> "Alice Chen", role |-> "electrical_engineer"],
       [user_id |-> "bob", name |-> "Bob Martinez", role |-> "electrical_engineer"],
       [user_id |-> "ivan", name |-> "Ivan Patel", role |-> "pm"] >>

projects_json ==
    << [project_id |-> "p1", name |-> "P1", channels |-> <<"c1">>, keywords |-> <<"K1">>],
       [project_id |-> "p2", name |-> "P2", channels |-> <<"c2">>, keywords |-> <<"K2">>] >>

personal_project ==
    [project_id |-> "personal", name |-> "Personal", channels |-> <<>>,
     keywords |-> <<"promotion", "review">>]

NoProject == "none"
NoChannel == "none"

Phases == {"active", "review", "done", "blocked"}

NoState ==
    [user_id |-> "none", project_id |-> NoProject, phase |-> "none",
     channels |-> <<>>, last_contributed |-> 0, messages_past_week |-> 0]

(* str.lower() on the words that occur in keywords and texts *)
Lower(w) ==
    CASE w = "K1" -> "k1"
      [] w = "K2" -> "k2"
      [] OTHER -> w

(* ------------------------------------------------------------------ *)
(* Sequences                                                          *)
(* ------------------------------------------------------------------ *)
Range(s) == {s[i] : i \in 1..Len(s)}

Exists(s, P(_)) == \E i \in 1..Len(s) : P(s[i])

First(s, P(_)) ==
    s[CHOOSE i \in 1..Len(s) : P(s[i]) /\ \A j \in 1..(i - 1) : ~P(s[j])]

Pow2(n) == 2 ^ n

(* ------------------------------------------------------------------ *)
(* project_extractor.py                                               *)
(* ------------------------------------------------------------------ *)
text_lower(message) == {Lower(w) : w \in message.text}

HasKeyword(project, message) ==
    \E i \in 1..Len(project.keywords) : Lower(project.keywords[i]) \in text_lower(message)

HasChannel(project, message) == message.channel \in Range(project.channels)

extract_project(projects, message) ==
    IF message.channel # NoChannel /\ Exists(projects, LAMBDA p : HasChannel(p, message))
    THEN First(projects, LAMBDA p : HasChannel(p, message)).project_id
    ELSE IF Exists(projects, LAMBDA p : HasKeyword(p, message))
    THEN First(projects, LAMBDA p : HasKeyword(p, message)).project_id
    ELSE IF message.is_dm
    THEN personal_project.project_id
    ELSE NoProject

get_project_by_id(projects, project_id) ==
    IF project_id = "personal" THEN personal_project
    ELSE IF Exists(projects, LAMBDA p : p.project_id = project_id)
    THEN First(projects, LAMBDA p : p.project_id = project_id)
    ELSE [project_id |-> NoProject, name |-> "", channels |-> <<>>, keywords |-> <<>>]

(* ------------------------------------------------------------------ *)
(* project_state_manager.py                                           *)
(* ------------------------------------------------------------------ *)
(* (now - last_contrib).days : whole days, rounded towards minus infinity *)
days_since_contrib(project_state, now) ==
    (now - project_state.last_contributed) \div Day

(* an active record without a message in the past week stays active *)
detect_phase_no_silence_rule(project_state, user_messages, now) ==
    IF days_since_contrib(project_state, now) >= 14 THEN "done"
    ELSE IF project_state.messages_past_week >= 3 THEN "active"
    ELSE IF 0 < project_state.messages_past_week /\ project_state.messages_past_week < 3
    THEN "review"
    ELSE project_state.phase

(* done only after more than 14 days *)
detect_phase_after_fortnight(project_state, user_messages, now) ==
    IF days_since_contrib(project_state, now) > 14 THEN "done"
    ELSE IF project_state.messages_past_week = 0 /\ project_state.phase = "active"
    THEN "review"
    ELSE IF project_state.messages_past_week >= 3 THEN "active"
    ELSE IF 0 < project_state.messages_past_week /\ project_state.messages_past_week < 3
    THEN "review"
    ELSE project_state.phase

(* the activity rule tried before the two-weeks rule *)
detect_phase_activity_first(project_state, user_messages, now) ==
    IF project_state.messages_past_week >= 3 THEN "active"
    ELSE IF days_since_contrib(project_state, now) >= 14 THEN "done"
    ELSE IF project_state.messages_past_week = 0 /\ project_state.phase = "active"
    THEN "review"
    ELSE IF 0 < project_state.messages_past_week /\ project_state.messages_past_week < 3
    THEN "review"
    ELSE project_state.phase

detect_phase(project_state, user_messages, now) ==
    IF days_since_contrib(project_state, now) >= 14 THEN "done"
    ELSE IF project_state.messages_past_week = 0 /\ project_state.phase = "active"
    THEN "review"
    ELSE IF project_state.messages_past_week >= 3 THEN "active"
    ELSE IF 0 < project_state.messages_past_week /\ project_state.messages_past_week < 3
    THEN "review"
    ELSE project_state.phase

IsAnomaly(user_id, message) ==
    \/ user_id \in message.mentions
    \/ message.is_urgent \/ message.is_blocker

(* a record under review is reactivated like a done one *)
check_anomalies_done_or_review(project_state, new_messages) ==
    IF project_state.phase \notin {"done", "review"} THEN FALSE
    ELSE Exists(new_messages, LAMBDA m : IsAnomaly(project_state.user_id, m))

(* the guard on the phase left out *)
check_anomalies_any_phase(project_state, new_messages) ==
    Exists(new_messages, LAMBDA m : IsAnomaly(project_state.user_id, m))

check_anomalies(project_state, new_messages) ==
    IF project_state.phase # "done" THEN FALSE
    ELSE Exists(new_messages, LAMBDA m : IsAnomaly(project_state.user_id, m))

valid_phases == {"active", "review", "done", "blocked"}

InvalidPhase == [error |-> "ValueError"]

(* the phase applied without the validation *)
transition_unchecked(project_state, new_phase) ==
    [user_id |-> project_state.user_id,
     project_id |-> project_state.project_id,
     phase |-> new_phase,
     channels |-> project_state.channels,
     last_contributed |-> project_state.last_contributed,
     messages_past_week |-> project_state.messages_past_week]

(* the edges listed in the docstring of transition enforced *)
transition_listed_edges(project_state, new_phase) ==
    IF new_phase \notin valid_phases
       \/ <<project_state.phase, new_phase>> \notin
             {<<"active", "review">>, <<"review", "active">>, <<"review", "done">>,
              <<"done", "review">>, <<"active", "blocked">>, <<"blocked", "active">>,
              <<"blocked", "review">>}
    THEN InvalidPhase
    ELSE [user_id |-> project_state.user_id,
          project_id |-> project_state.project_id,
          phase |-> new_phase,
          channels |-> project_state.channels,
          last_contributed |-> project_state.last_contributed,
          messages_past_week |-> project_state.messages_past_week]

transition(project_state, new_phase) ==
    IF new_phase \notin valid_phases THEN InvalidPhase
    ELSE [user_id |-> project_state.user_id,
          project_id |-> project_state.project_id,
          phase |-> new_phase,
          channels |-> project_state.channels,
          last_contributed |-> project_state.last_contributed,
          messages_past_week |-> project_state.messages_past_week]

(* a mention alone does not make the new state active *)
create_state_sender_only(user_id, project_id, trigger_message, channels) ==
    [user_id |-> user_id,
     project_id |-> project_id,
     phase |-> IF trigger_message.sender = user_id THEN "active" ELSE "review",
     channels |-> channels,
     last_contributed |-> trigger_message.timestamp,
     messages_past_week |-> IF trigger_message.sender = user_id THEN 1 ELSE 0]

create_state(user_id, project_id, trigger_message, channels) ==
    [user_id |-> user_id,
     project_id |-> project_id,
     phase |-> IF user_id \in trigger_message.mentions \/ trigger_message.sender = user_id
               THEN "active" ELSE "review",
     channels |-> channels,
     last_contributed |-> trigger_message.timestamp,
     messages_past_week |-> IF trigger_message.sender = user_id THEN 1 ELSE 0]

RECURSIVE CountLoop(_, _, _, _, _, _)
CountLoop(user_id, recent_messages, i, count, latest_timestamp, now) ==
    IF i > Len(recent_messages)
    THEN [count |-> count, latest_timestamp |-> latest_timestamp]
    ELSE LET msg == recent_messages[i] IN
         IF msg.sender # user_id
         THEN CountLoop(user_id, recent_messages, i + 1, count, latest_timestamp, now)
         ELSE CountLoop(user_id, recent_messages, i + 1,
                        IF msg.timestamp >= now - Week THEN count + 1 ELSE count,
                        IF msg.timestamp > latest_timestamp
                        THEN msg.timestamp ELSE latest_timestamp,
                        now)

(* the count carried on from the stored messages_past_week *)
update_activity_counts_accumulate(project_state, recent_messages, now) ==
    LET r == CountLoop(project_state.user_id, recent_messages, 1,
                       project_state.messages_past_week,
                       project_state.last_contributed, now)
    IN [user_id |-> project_state.user_id,
        project_id |-> project_state.project_id,
        phase |-> project_state.phase,
        channels |-> project_state.channels,
        last_contributed |-> r.latest_timestamp,
        messages_past_week |-> r.count]

(* last_contributed taken from the user's messages alone *)
update_activity_counts_last_seen(project_state, recent_messages, now) ==
    LET own == SelectSeq(recent_messages, LAMBDA m : m.sender = project_state.user_id)
        r == CountLoop(project_state.user_id, recent_messages, 1, 0,
                       project_state.last_contributed, now)
    IN [user_id |-> project_state.user_id,
        project_id |-> project_state.project_id,
        phase |-> project_state.phase,
        channels |-> project_state.channels,
        last_contributed |-> IF own = <<>> THEN project_state.last_contributed
                             ELSE own[1].timestamp,
        messages_past_week |-> r.count]

update_activity_counts(project_state, recent_messages, now) ==
    LET r == CountLoop(project_state.user_id, recent_messages, 1, 0,
                       project_state.last_contributed, now)
    IN [user_id |-> project_state.user_id,
        project_id |-> project_state.project_id,
        phase |-> project_state.phase,
        channels |-> project_state.channels,
        last_contributed |-> r.latest_timestamp,
        messages_past_week |-> r.count]

(* ------------------------------------------------------------------ *)
(* ranking.py : a score is  m * 2^-k / ScoreDen                       *)
(* ------------------------------------------------------------------ *)
HIGH_PRIORITY_ROLES == {"pm", "engineering_lead"}
ScoreDen == 10 * 10 * 10 * 100

(* math.exp on doubles: exp(x * ln 2) raises OverflowError above 2^1024 and
   is 0.0 from 2^-1075 down *)
ExpOverflowUnits == 1024
ExpUnderflowUnits == 1075

OverflowError == [error |-> "OverflowError"]

(* exp(-ln(2)/8 * hours_ago) clamped to [0, 1]: 2^-k, and 1 when the
   message is later than now; math.exp raises before the clamp when the
   message is more than ExpOverflowUnits later than now *)
temporal_decay(timestamp, now) ==
    LET units_ago == now - timestamp
    IN IF 0 - units_ago > ExpOverflowUnits THEN OverflowError
       ELSE IF units_ago >= ExpUnderflowUnits THEN [num |-> 0, exp |-> 0]
       ELSE [num |-> 1, exp |-> IF units_ago < 0 THEN 0 ELSE units_ago]

user_roles_of(users) ==
    [uid \in {users[i].user_id : i \in 1..Len(users)} |->
        users[CHOOSE i \in 1..Len(users) :
                 /\ users[i].user_id = uid
                 /\ \A j \in (i + 1)..Len(users) : users[j].user_id # uid].role]

(* the boost grows with the activity without limit *)
activity_boost_uncapped(project_state) == 100 + project_state.messages_past_week * 5

(* min(1.0 + messages_past_week * 0.05, 1.5), in hundredths *)
activity_boost(project_state) ==
    LET activity == 100 + project_state.messages_past_week * 5
    IN IF activity < 150 THEN activity ELSE 150

(* the review penalty left out *)
boosted_score_no_penalty(message, project_state, user_id, user_roles, now) ==
    LET recency_score == temporal_decay(message.timestamp, now)
        urgency_boost == IF message.is_urgent THEN 15 ELSE 10
        blocker_boost == IF message.is_blocker THEN 13 ELSE 10
        mention_boost == IF user_id \in message.mentions THEN 18 ELSE 10
        sender_role_boost ==
            IF message.sender \in DOMAIN user_roles
               /\ user_roles[message.sender] \in HIGH_PRIORITY_ROLES
            THEN 2 ELSE 1
        final == recency_score.num * urgency_boost * blocker_boost
                 * mention_boost * activity_boost(project_state) * sender_role_boost
    IN [m |-> final, k |-> recency_score.exp]

(* the product of the recency and the boosts, halved under review *)
boosted_score(message, project_state, user_id, user_roles, now) ==
    LET recency_score == temporal_decay(message.timestamp, now)
        urgency_boost == IF message.is_urgent THEN 15 ELSE 10
        blocker_boost == IF message.is_blocker THEN 13 ELSE 10
        mention_boost == IF user_id \in message.mentions THEN 18 ELSE 10
        sender_role_boost ==
            IF message.sender \in DOMAIN user_roles
               /\ user_roles[message.sender] \in HIGH_PRIORITY_ROLES
            THEN 2 ELSE 1
        final == recency_score.num * urgency_boost * blocker_boost
                 * mention_boost * activity_boost(project_state) * sender_role_boost
    IN [m |-> final,
        k |-> IF project_state.phase = "review"
              THEN recency_score.exp + 1 ELSE recency_score.exp]

(* a blocker passes the gate of the done phase *)
compute_relevance_blocker_first(message, project_state, user_id, user_roles, now) ==
    IF project_state = NoState THEN [m |-> 3 * (ScoreDen \div 10), k |-> 0]
    ELSE IF project_state.phase = "done" /\ ~message.is_blocker THEN [m |-> 0, k |-> 0]
    ELSE IF project_state.phase = "blocked" /\ ~message.is_blocker
    THEN [m |-> ScoreDen \div 10, k |-> 0]
    ELSE boosted_score(message, project_state, user_id, user_roles, now)

compute_relevance(message, project_state, user_id, user_roles, now) ==
    IF project_state = NoState THEN [m |-> 3 * (ScoreDen \div 10), k |-> 0]
    ELSE IF project_state.phase = "done" THEN [m |-> 0, k |-> 0]
    ELSE IF project_state.phase = "blocked" /\ ~message.is_blocker
    THEN [m |-> ScoreDen \div 10, k |-> 0]
    ELSE boosted_score(message, project_state, user_id, user_roles, now)

(* comparison of two scores; the mantissas differ by less than 2^7 *)
ScoreGt(a, b) ==
    IF a.m = 0 THEN FALSE
    ELSE IF b.m = 0 THEN TRUE
    ELSE IF a.k >= b.k + 7 THEN FALSE
    ELSE IF b.k >= a.k + 7 THEN TRUE
    ELSE LET lo == IF a.k < b.k THEN a.k ELSE b.k
         IN a.m * Pow2(b.k - lo) > b.m * Pow2(a.k - lo)

ScoreEq(a, b) == ~ScoreGt(a, b) /\ ~ScoreGt(b, a)

ScorePositive(a) == a.m > 0

(* ------------------------------------------------------------------ *)
(* Python dicts and sorts                                             *)
(* ------------------------------------------------------------------ *)
(* the keys of a dict filled in the order of ks: each key once, in the
   order of its first insertion *)
RECURSIVE KeysInOrder(_)
KeysInOrder(ks) ==
    IF ks = <<>> THEN <<>>
    ELSE LET rest == KeysInOrder(SubSeq(ks, 1, Len(ks) - 1))
             last == ks[Len(ks)]
         IN IF last \in Range(rest) THEN rest ELSE Append(rest, last)

(* list.sort(key=timestamp, reverse=True): descending, equal keys keep
   their order *)
RECURSIVE SortByTimestampDesc(_)
SortByTimestampDesc(s) ==
    IF s = <<>> THEN <<>>
    ELSE LET rest == SortByTimestampDesc(SubSeq(s, 1, Len(s) - 1))
             x == s[Len(s)]
             n == Cardinality({i \in 1..Len(rest) : rest[i].timestamp >= x.timestamp})
         IN SubSeq(rest, 1, n) \o <<x>> \o SubSeq(rest, n + 1, Len(rest))

(* a sort that puts a message before the earlier messages of the same score *)
RECURSIVE SortByScoreDescUnstable(_)
SortByScoreDescUnstable(s) ==
    IF s = <<>> THEN <<>>
    ELSE LET rest == SortByScoreDescUnstable(SubSeq(s, 1, Len(s) - 1))
             x == s[Len(s)]
             n == Cardinality({i \in 1..Len(rest) : ScoreGt(rest[i].score, x.score)})
         IN SubSeq(rest, 1, n) \o <<x>> \o SubSeq(rest, n + 1, Len(rest))

(* list.sort(key=score, reverse=True) *)
RECURSIVE SortByScoreDesc(_)
SortByScoreDesc(s) ==
    IF s = <<>> THEN <<>>
    ELSE LET rest == SortByScoreDesc(SubSeq(s, 1, Len(s) - 1))
             x == s[Len(s)]
             n == Cardinality({i \in 1..Len(rest) : ~ScoreGt(x.score, rest[i].score)})
         IN SubSeq(rest, 1, n) \o <<x>> \o SubSeq(rest, n + 1, Len(rest))

(* ------------------------------------------------------------------ *)
(* storage.py                                                         *)
(* ------------------------------------------------------------------ *)
ParseOk(timestamp) == timestamp # BadTs

(* load_messages raises when datetime.fromisoformat rejects a timestamp *)
load_messages_raises(file) == Exists(file, LAMBDA m : ~ParseOk(m.timestamp))

load_messages(file, since) ==
    SortByTimestampDesc(SelectSeq(file, LAMBDA m : m.timestamp >= since))

load_user_states(file, user_id) == SelectSeq(file, LAMBDA st : st.user_id = user_id)

StateKey(st) == <<st.user_id, st.project_id>>

(* the file written from the new states alone *)
merge_states_replace(existing_file, states) == states

(* the new states appended to the file's, no key looked up *)
merge_states_append(existing_file, states) == existing_file \o states

(* existing_dict keyed by the project alone *)
merge_states_by_project(existing_file, states) ==
    LET all == existing_file \o states
        keys == KeysInOrder([i \in 1..Len(all) |-> all[i].project_id])
    IN [i \in 1..Len(keys) |->
          all[CHOOSE j \in 1..Len(all) :
                 /\ all[j].project_id = keys[i]
                 /\ \A h \in (j + 1)..Len(all) : all[h].project_id # keys[i]]]

(* existing_dict after the update loop, as list(existing_dict.values()) *)
merge_states(existing_file, states) ==
    LET all == existing_file \o states
        keys == KeysInOrder([i \in 1..Len(all) |-> StateKey(all[i])])
    IN [i \in 1..Len(keys) |->
          all[CHOOSE j \in 1..Len(all) :
                 /\ StateKey(all[j]) = keys[i]
                 /\ \A h \in (j + 1)..Len(all) : StateKey(all[h]) # keys[i]]]

(* ------------------------------------------------------------------ *)
(* digest_pipeline.py                                                 *)
(* ------------------------------------------------------------------ *)
max_items == 20

messages_of(projects, messages, project_id) ==
    SelectSeq(messages, LAMBDA m : extract_project(projects, m) = project_id)

messages_by_project_keys(projects, messages) ==
    KeysInOrder(SelectSeq([i \in 1..Len(messages) |-> extract_project(projects, messages[i])],
                          LAMBDA pid : pid # NoProject))

states_dict_keys(user_states) ==
    KeysInOrder([i \in 1..Len(user_states) |-> user_states[i].project_id])

states_dict_get(user_states, project_id) ==
    IF \E i \in 1..Len(user_states) : user_states[i].project_id = project_id
    THEN user_states[CHOOSE i \in 1..Len(user_states) :
                        /\ user_states[i].project_id = project_id
                        /\ \A j \in (i + 1)..Len(user_states) :
                              user_states[j].project_id # project_id]
    ELSE NoState

(* the anomaly override left out *)
update_existing_state_no_override(user_id, state0, project_messages, now) ==
    LET state == update_activity_counts(state0, project_messages, now)
        user_messages == SelectSeq(project_messages, LAMBDA m : m.sender = user_id)
        new_phase == detect_phase(state, user_messages, now)
    IN IF new_phase # state.phase THEN transition(state, new_phase) ELSE state

(* a blocker message in the batch blocks the project *)
update_existing_state_blocks(user_id, state0, project_messages, now) ==
    LET state == update_activity_counts(state0, project_messages, now)
        user_messages == SelectSeq(project_messages, LAMBDA m : m.sender = user_id)
        detected == detect_phase(state, user_messages, now)
        new_phase == IF check_anomalies(state, project_messages) THEN "review"
                     ELSE IF Exists(project_messages, LAMBDA m : m.is_blocker) THEN "blocked"
                     ELSE detected
    IN IF new_phase # state.phase THEN transition(state, new_phase) ELSE state

(* the anomalies looked for on the phase just detected *)
update_existing_state_recheck(user_id, state0, project_messages, now) ==
    LET state == update_activity_counts(state0, project_messages, now)
        user_messages == SelectSeq(project_messages, LAMBDA m : m.sender = user_id)
        detected == detect_phase(state, user_messages, now)
        new_phase == IF check_anomalies([state EXCEPT !.phase = detected], project_messages)
                     THEN "review" ELSE detected
    IN IF new_phase # state.phase THEN transition(state, new_phase) ELSE state

(* the body of the loop over states_dict.items() *)
update_existing_state(user_id, state0, project_messages, now) ==
    LET state == update_activity_counts(state0, project_messages, now)
        user_messages == SelectSeq(project_messages, LAMBDA m : m.sender = user_id)
        detected == detect_phase(state, user_messages, now)
        new_phase == IF check_anomalies(state, project_messages) THEN "review" ELSE detected
    IN IF new_phase # state.phase THEN transition(state, new_phase) ELSE state

(* the first message of the project taken whoever it involves *)
trigger_message_first(user_id, project_messages) == project_messages[1]

trigger_message(user_id, project_messages) ==
    IF Exists(project_messages, LAMBDA m : user_id \in m.mentions \/ m.sender = user_id)
    THEN First(project_messages, LAMBDA m : user_id \in m.mentions \/ m.sender = user_id)
    ELSE project_messages[1]

(* the body of the loop over messages_by_project.items() *)
create_new_state(user_id, project_id, project_messages, projects) ==
    create_state(user_id, project_id, trigger_message(user_id, project_messages),
                 get_project_by_id(projects, project_id).channels)

(* no state made for the projects met for the first time *)
update_project_states_no_create(user_id, user_states, messages, projects, now) ==
    LET old == states_dict_keys(user_states)
    IN [i \in 1..Len(old) |->
           update_existing_state(user_id, states_dict_get(user_states, old[i]),
                                 messages_of(projects, messages, old[i]), now)]

(* a state whose project has no message in the batch is not carried over *)
update_project_states_active_only(user_id, user_states, messages, projects, now) ==
    LET old == SelectSeq(states_dict_keys(user_states),
                         LAMBDA pid : messages_of(projects, messages, pid) # <<>>)
        new == SelectSeq(messages_by_project_keys(projects, messages),
                         LAMBDA pid : pid \notin Range(states_dict_keys(user_states)))
    IN [i \in 1..Len(old) |->
           update_existing_state(user_id, states_dict_get(user_states, old[i]),
                                 messages_of(projects, messages, old[i]), now)]
       \o
       [i \in 1..Len(new) |->
           create_new_state(user_id, new[i], messages_of(projects, messages, new[i]),
                            projects)]

update_project_states(user_id, user_states, messages, projects, now) ==
    LET old == states_dict_keys(user_states)
        new == SelectSeq(messages_by_project_keys(projects, messages),
                         LAMBDA pid : pid \notin Range(old))
    IN [i \in 1..Len(old) |->
           update_existing_state(user_id, states_dict_get(user_states, old[i]),
                                 messages_of(projects, messages, old[i]), now)]
       \o
       [i \in 1..Len(new) |->
           create_new_state(user_id, new[i], messages_of(projects, messages, new[i]),
                            projects)]

score_message(user_id, message, user_states, projects, user_roles, now) ==
    LET project_state == states_dict_get(user_states, extract_project(projects, message))
    IN [message |-> message,
        project_state |-> project_state,
        score |-> compute_relevance(message, project_state, user_id, user_roles, now)]

(* score >= 0 in place of score > 0 *)
filter_and_rank_messages_keep_zero(user_id, messages, user_states, projects, user_roles, now) ==
    SortByScoreDesc([i \in 1..Len(messages) |->
                        score_message(user_id, messages[i], user_states, projects,
                                      user_roles, now)])

filter_and_rank_messages(user_id, messages, user_states, projects, user_roles, now) ==
    LET scored == [i \in 1..Len(messages) |->
                      score_message(user_id, messages[i], user_states, projects,
                                    user_roles, now)]
    IN SortByScoreDesc(SelectSeq(scored, LAMBDA x : ScorePositive(x.score)))

(* ------------------------------------------------------------------ *)
(* digest_generator.py                                                *)
(* ------------------------------------------------------------------ *)
(* the whole list taken, no limit applied *)
PrefixUnlimited(s, n) == s

Prefix(s, n) == SubSeq(s, 1, IF Len(s) < n THEN Len(s) ELSE n)

section_of(x) ==
    IF x.message.is_urgent \/ x.message.is_blocker THEN "urgent"
    ELSE IF x.project_state # NoState /\ x.project_state.phase = "active" THEN "active"
    ELSE IF x.project_state # NoState /\ x.project_state.phase = "review" THEN "review"
    ELSE "active"

item_project_id(x) ==
    IF x.project_state # NoState THEN x.project_state.project_id ELSE "unknown"

create_digest_item(x) ==
    [message_id |-> x.message.id, project_id |-> item_project_id(x), relevance_score |-> x.score]

(* groups.sort(key=message_count, reverse=True) *)
RECURSIVE SortByCountDesc(_)
SortByCountDesc(s) ==
    IF s = <<>> THEN <<>>
    ELSE LET rest == SortByCountDesc(SubSeq(s, 1, Len(s) - 1))
             x == s[Len(s)]
             n == Cardinality({i \in 1..Len(rest) : rest[i].message_count >= x.message_count})
         IN SubSeq(rest, 1, n) \o <<x>> \o SubSeq(rest, n + 1, Len(rest))

(* one section: a group per project, the larger groups first *)
create_project_groups(taken, section) ==
    LET mine == SelectSeq(taken, LAMBDA x : section_of(x) = section)
        pids == KeysInOrder([i \in 1..Len(mine) |-> item_project_id(mine[i])])
    IN SortByCountDesc(
         [g \in 1..Len(pids) |->
            LET of == SelectSeq(mine, LAMBDA x : item_project_id(x) = pids[g])
            IN [project_id |-> pids[g],
                items |-> [i \in 1..Len(of) |-> create_digest_item(of[i])],
                message_count |-> Len(of)]])

generate(ranked_messages, user_id, now) ==
    LET taken == Prefix(ranked_messages, max_items)
    IN [generated_at |-> now,
        user_id |-> user_id,
        urgent |-> create_project_groups(taken, "urgent"),
        active |-> create_project_groups(taken, "active"),
        review |-> create_project_groups(taken, "review")]

(* ------------------------------------------------------------------ *)
(* State                                                              *)
(* ------------------------------------------------------------------ *)
VARIABLES
    now,                       \* datetime.now(), in units of 8 hours
    messages_json,             \* data/messages.json
    user_project_states_json,  \* data/user_project_states.json
    pc,                        \* per user: where its generate_digest call stands
    messages,                  \* generate_digest: messages
    loaded_states,             \* generate_digest: user_states as loaded (line 54)
    user_states,               \* generate_digest: user_states as updated (line 63)
    ranked_messages,           \* generate_digest: ranked_messages
    digest,                    \* generate_digest: digest
    existing,                  \* save_user_states: existing
    states_at_start,           \* user_project_states.json as it was when the call began
    call,                      \* a direct call of a ProjectStateManager method
    passes                     \* the number of generate_digest calls begun

vars == <<now, messages_json, user_project_states_json, pc, messages,
          loaded_states, user_states, ranked_messages, digest, existing,
          states_at_start, call, passes>>

files == <<messages_json, user_project_states_json>>
locals == <<messages, loaded_states, user_states, ranked_messages, digest, existing>>

NoDigest == [generated_at |-> BadTs, user_id |-> "none",
             urgent |-> <<>>, active |-> <<>>, review |-> <<>>]
NoCall == [op |-> "none"]

(* the messages the environment may put into messages.json; age is how long
   before its arrival a message was written *)
Tmpl(sender, channel, text, mentions, is_dm, is_urgent, is_blocker, age, well_formed) ==
    [sender |-> sender, channel |-> channel, text |-> text, mentions |-> mentions,
     is_dm |-> is_dm, is_urgent |-> is_urgent, is_blocker |-> is_blocker,
     age |-> age, well_formed |-> well_formed]

MsgPool ==
    { Tmpl("alice", "c1", {}, {}, FALSE, FALSE, FALSE, 1, TRUE),
      Tmpl("ivan", "c1", {}, {"alice"}, FALSE, TRUE, FALSE, 0, TRUE),
      Tmpl("ivan", "c1", {}, {}, FALSE, FALSE, TRUE, 1, TRUE),
      Tmpl("carol", "c1", {}, {}, FALSE, FALSE, FALSE, Day, TRUE),
      Tmpl("alice", NoChannel, {"k2"}, {"bob"}, FALSE, FALSE, FALSE, 0, TRUE),
      Tmpl("carol", NoChannel, {}, {}, FALSE, FALSE, FALSE, 0, TRUE),
      Tmpl("carol", "c1", {}, {}, FALSE, FALSE, FALSE, 0, FALSE) }

Message(id, t, at) ==
    [id |-> id, channel |-> t.channel, thread_id |-> "none", sender |-> t.sender,
     text |-> t.text, timestamp |-> IF t.well_formed THEN at - t.age ELSE BadTs,
     mentions |-> t.mentions, is_dm |-> t.is_dm, is_urgent |-> t.is_urgent,
     is_blocker |-> t.is_blocker]

State(user_id, project_id, phase, last_contributed, messages_past_week) ==
    [user_id |-> user_id, project_id |-> project_id, phase |-> phase,
     channels |-> get_project_by_id(projects_json, project_id).channels,
     last_contributed |-> last_contributed, messages_past_week |-> messages_past_week]

(* the user_project_states.json files a run may start from: no key twice *)
InitStateFiles ==
    LET alice == {<<>>} \cup
                 {<<State("alice", "p1", ph, lc, n)>> :
                    ph \in Phases, lc \in {Now0 - 15 * Day, Now0}, n \in {0}}
        bob == {<<State("bob", "p1", "active", Now0 - Day, 0)>>}
    IN {a \o b : a \in alice, b \in bob}

HoursBackChoices == {24}
TickSteps == {Fortnight}

Idle(u) == pc[u] = "idle"
AllIdle == \A u \in Users : Idle(u)

Init ==
    /\ now = Now0
    /\ messages_json = <<>>
    /\ user_project_states_json \in InitStateFiles
    /\ pc = [u \in Users |-> "idle"]
    /\ messages = [u \in Users |-> <<>>]
    /\ loaded_states = [u \in Users |-> <<>>]
    /\ user_states = [u \in Users |-> <<>>]
    /\ ranked_messages = [u \in Users |-> <<>>]
    /\ digest = [u \in Users |-> NoDigest]
    /\ existing = [u \in Users |-> <<>>]
    /\ states_at_start = [u \in Users |-> <<>>]
    /\ call = NoCall
    /\ passes = 0

(* ------------------------------------------------------------------ *)
(* The environment: messages arrive, time passes                      *)
(* ------------------------------------------------------------------ *)
Ingest(t) ==
    /\ AllIdle
    /\ passes < MaxPasses
    /\ Len(messages_json) < MaxMsgs
    /\ messages_json' = Append(messages_json, Message(Len(messages_json) + 1, t, now))
    /\ UNCHANGED <<now, user_project_states_json, pc, locals,
                   states_at_start, call, passes>>

Tick(d) ==
    /\ AllIdle
    /\ passes < MaxPasses
    /\ now + d <= MaxNow
    /\ now' = now + d
    /\ UNCHANGED <<files, pc, locals, states_at_start, call, passes>>

(* ------------------------------------------------------------------ *)
(* DigestPipeline.generate_digest(user_id, hours_back), step by step  *)
(* ------------------------------------------------------------------ *)
Goto(u, label) == pc' = [pc EXCEPT ![u] = label]

(* Step 1: storage.load_messages(since): the messages of the window, or
   ValueError from datetime.fromisoformat, or the file cannot be read *)
LoadMessages(u, hours_back) ==
    /\ Idle(u)
    /\ passes < MaxPasses
    /\ passes' = passes + 1
    /\ states_at_start' = [states_at_start EXCEPT ![u] = user_project_states_json]
    /\ \/ /\ load_messages_raises(messages_json)
          /\ Goto(u, "value_error")
          /\ UNCHANGED messages
       \/ /\ ~load_messages_raises(messages_json)
          /\ Goto(u, "load_inputs")
          /\ messages' = [messages EXCEPT ![u] =
                 load_messages(messages_json, now - hours_back \div HalfLifeHours)]
       \/ /\ Goto(u, "failed")
          /\ UNCHANGED messages
    /\ UNCHANGED <<now, files, loaded_states, user_states, ranked_messages, digest,
                   existing, call>>

(* Step 2: storage.load_projects(), load_user_states(user_id), load_users() *)
LoadInputs(u) ==
    /\ pc[u] = "load_inputs"
    /\ loaded_states' = [loaded_states EXCEPT ![u] =
           load_user_states(user_project_states_json, u)]
    /\ user_states' = [user_states EXCEPT ![u] =
           load_user_states(user_project_states_json, u)]
    /\ Goto(u, "update_project_states")
    /\ UNCHANGED <<now, files, messages, ranked_messages, digest, existing,
                   states_at_start, call, passes>>

(* Step 3: self._update_project_states(...) *)
UpdateProjectStates(u) ==
    /\ pc[u] = "update_project_states"
    /\ user_states' = [user_states EXCEPT ![u] =
           update_project_states(u, user_states[u], messages[u], projects_json, now)]
    /\ Goto(u, "filter_and_rank")
    /\ UNCHANGED <<now, files, messages, loaded_states, ranked_messages, digest,
                   existing, states_at_start, call, passes>>

(* the messages scored against the states as loaded *)
FilterAndRankLoaded(u) ==
    /\ pc[u] = "filter_and_rank"
    /\ ranked_messages' = [ranked_messages EXCEPT ![u] =
           filter_and_rank_messages(u, messages[u], loaded_states[u], projects_json,
                                    user_roles_of(users_json), now)]
    /\ Goto(u, "generate")
    /\ UNCHANGED <<now, files, messages, loaded_states, user_states, digest, existing,
                   states_at_start, call, passes>>

(* Step 4: self._filter_and_rank_messages(...) *)
FilterAndRank(u) ==
    /\ pc[u] = "filter_and_rank"
    /\ ranked_messages' = [ranked_messages EXCEPT ![u] =
           filter_and_rank_messages(u, messages[u], user_states[u], projects_json,
                                    user_roles_of(users_json), now)]
    /\ Goto(u, "generate")
    /\ UNCHANGED <<now, files, messages, loaded_states, user_states, digest, existing,
                   states_at_start, call, passes>>

(* Step 5: self.digest_generator.generate(...) *)
Generate(u) ==
    /\ pc[u] = "generate"
    /\ digest' = [digest EXCEPT ![u] = generate(ranked_messages[u], u, now)]
    /\ Goto(u, "save_user_states")
    /\ UNCHANGED <<now, files, messages, loaded_states, user_states, ranked_messages,
                   existing, states_at_start, call, passes>>

(* Step 6: storage.save_user_states, the read of the file *)
SaveUserStatesRead(u) ==
    /\ pc[u] = "save_user_states"
    /\ existing' = [existing EXCEPT ![u] = user_project_states_json]
    /\ Goto(u, "save_user_states_write")
    /\ UNCHANGED <<now, files, messages, loaded_states, user_states, ranked_messages,
                   digest, states_at_start, call, passes>>

(* Step 6: storage.save_user_states, the write of the file *)
SaveUserStatesWrite(u) ==
    /\ pc[u] = "save_user_states_write"
    /\ user_project_states_json' = merge_states(existing[u], user_states[u])
    /\ Goto(u, "save_digest")
    /\ UNCHANGED <<now, messages_json, locals, states_at_start, call, passes>>

(* Step 6: storage.save_digest(digest) writes digest[u] to a file of its own
   in data/digests, which no call of generate_digest reads *)
SaveDigest(u) ==
    /\ pc[u] = "save_digest"
    /\ Goto(u, "returned")
    /\ UNCHANGED <<now, files, locals, states_at_start, call, passes>>

(* a collaborator call raises: the exception leaves generate_digest *)
CollaboratorPcs ==
    {"load_inputs", "update_project_states", "filter_and_rank", "generate",
     "save_user_states", "save_user_states_write", "save_digest"}

Unwind(u) ==
    /\ messages' = [messages EXCEPT ![u] = <<>>]
    /\ loaded_states' = [loaded_states EXCEPT ![u] = <<>>]
    /\ user_states' = [user_states EXCEPT ![u] = <<>>]
    /\ ranked_messages' = [ranked_messages EXCEPT ![u] = <<>>]
    /\ digest' = [digest EXCEPT ![u] = NoDigest]
    /\ existing' = [existing EXCEPT ![u] = <<>>]

CollaboratorFails(u) ==
    /\ pc[u] \in CollaboratorPcs
    /\ Goto(u, "failed")
    /\ Unwind(u)
    /\ UNCHANGED <<now, files, states_at_start, call, passes>>

(* the call is over (the digest is returned, or the exception reported) *)
Return(u) ==
    /\ pc[u] \in {"returned", "failed", "value_error"}
    /\ Goto(u, "idle")
    /\ Unwind(u)
    /\ states_at_start' = [states_at_start EXCEPT ![u] = <<>>]
    /\ UNCHANGED <<now, files, call, passes>>

Step(u) ==
    \/ LoadInputs(u)
    \/ UpdateProjectStates(u) \/ FilterAndRank(u) \/ Generate(u)
    \/ SaveUserStatesRead(u) \/ SaveUserStatesWrite(u) \/ SaveDigest(u)
    \/ CollaboratorFails(u) \/ Return(u)

(* one call of generate_digest at a time *)
GenerateDigest(u, hours_back) == AllIdle /\ LoadMessages(u, hours_back)

Next ==
    \/ \E t \in MsgPool : Ingest(t)
    \/ \E d \in TickSteps : Tick(d)
    \/ \E u \in Users, h \in HoursBackChoices : GenerateDigest(u, h)
    \/ \E u \in Users : Step(u)

Spec == Init /\ [][Next]_vars

(* the requests of the web application are served by threads that share
   one pipeline and one storage: calls for several users overlap *)
NextConc ==
    \/ \E t \in MsgPool : Ingest(t)
    \/ \E d \in TickSteps : Tick(d)
    \/ \E u \in Users, h \in HoursBackChoices : LoadMessages(u, h)
    \/ \E u \in Users : Step(u)

SpecConc == Init /\ [][NextConc]_vars

(* ------------------------------------------------------------------ *)
(* Direct calls of the ProjectStateManager methods                    *)
(* ------------------------------------------------------------------ *)
MaxCount == 4
MaxCallMsgs == 2

(* the messages_past_week from which the activity boost stays at 1.5 *)
ActivityCap == (150 - 100) \div 5

CallStates ==
    {State(u, "p1", ph, lc, n) :
        u \in Users, ph \in Phases, n \in 0..MaxCount \cup {ActivityCap, ActivityCap + 1},
        lc \in {Now0 - Fortnight - 1, Now0 - Fortnight, Now0 - Fortnight + 1,
                Now0 - Day, Now0}}

CallPool ==
    { Tmpl("alice", "c1", {}, {}, FALSE, FALSE, FALSE, 1, TRUE),
      Tmpl("alice", "c1", {}, {}, FALSE, FALSE, FALSE, Week, TRUE),
      Tmpl("alice", "c1", {}, {}, FALSE, FALSE, FALSE, Week + 1, TRUE),
      Tmpl("alice", NoChannel, {"k2"}, {"bob"}, FALSE, FALSE, FALSE, 0, TRUE),
      Tmpl("ivan", "c1", {}, {"alice"}, FALSE, TRUE, FALSE, 0, TRUE),
      Tmpl("ivan", "c1", {}, {}, FALSE, FALSE, TRUE, 1, TRUE),
      Tmpl("ivan", "c1", {}, {"alice"}, FALSE, TRUE, TRUE, 0, TRUE),
      Tmpl("carol", "c1", {}, {}, FALSE, FALSE, FALSE, Day, TRUE) }

CallMessages == UNION {[1..n -> CallPool] : n \in 0..MaxCallMsgs}

InitCall ==
    /\ now = Now0
    /\ messages_json = <<>>
    /\ user_project_states_json = <<>>
    /\ pc = [u \in Users |-> "idle"]
    /\ messages = [u \in Users |-> <<>>]
    /\ loaded_states = [u \in Users |-> <<>>]
    /\ user_states = [u \in Users |-> <<>>]
    /\ ranked_messages = [u \in Users |-> <<>>]
    /\ digest = [u \in Users |-> NoDigest]
    /\ existing = [u \in Users |-> <<>>]
    /\ states_at_start = [u \in Users |-> <<>>]
    /\ passes = 0
    /\ \E st \in CallStates, ts \in CallMessages :
          call = [op |-> "args", project_state |-> st,
                  messages |-> [i \in 1..Len(ts) |-> Message(i, ts[i], now)]]

CallDetectPhase ==
    /\ call.op = "args"
    /\ call' = [op |-> "detect_phase", project_state |-> call.project_state,
                messages |-> call.messages,
                result |-> detect_phase(call.project_state, call.messages, now)]
    /\ UNCHANGED <<now, files, pc, locals, states_at_start, passes>>

CallCheckAnomalies ==
    /\ call.op = "args"
    /\ call' = [op |-> "check_anomalies", project_state |-> call.project_state,
                messages |-> call.messages,
                result |-> check_anomalies(call.project_state, call.messages)]
    /\ UNCHANGED <<now, files, pc, locals, states_at_start, passes>>

CallCreateState ==
    /\ call.op = "args"
    /\ call.messages # <<>>
    /\ call' = [op |-> "create_state", project_state |-> call.project_state,
                messages |-> call.messages,
                result |-> create_state(call.project_state.user_id,
                                        call.project_state.project_id,
                                        call.messages[1], call.project_state.channels)]
    /\ UNCHANGED <<now, files, pc, locals, states_at_start, passes>>

CallUpdateActivityCounts ==
    /\ call.op = "args"
    /\ call' = [op |-> "update_activity_counts", project_state |-> call.project_state,
                messages |-> call.messages,
                result |-> update_activity_counts(call.project_state, call.messages, now)]
    /\ UNCHANGED <<now, files, pc, locals, states_at_start, passes>>

NewPhases == valid_phases \cup {"bogus"}

CallTransition(new_phase) ==
    /\ call.op = "args"
    /\ call' = [op |-> "transition", project_state |-> call.project_state,
                messages |-> call.messages, new_phase |-> new_phase,
                result |-> transition(call.project_state, new_phase)]
    /\ UNCHANGED <<now, files, pc, locals, states_at_start, passes>>

CallComputeRelevance(with_state) ==
    /\ call.op = "args"
    /\ call.messages # <<>>
    /\ LET project_state == IF with_state THEN call.project_state ELSE NoState IN
       call' = [op |-> "compute_relevance", project_state |-> call.project_state,
                messages |-> call.messages, scored_with |-> project_state,
                result |-> compute_relevance(call.messages[1], project_state,
                                             call.project_state.user_id,
                                             user_roles_of(users_json), now)]
    /\ UNCHANGED <<now, files, pc, locals, states_at_start, passes>>

(* the timestamps of the direct calls of temporal_decay, as distances from now *)
DecayDistances ==
    {0, 1, 2, Day, Week, ExpUnderflowUnits - 1, ExpUnderflowUnits,
     0 - 1, 0 - Day, 0 - ExpOverflowUnits, 0 - ExpOverflowUnits - 1}

CallTemporalDecay(distance) ==
    /\ call.op = "args"
    /\ call.messages = <<>>
    /\ call' = [op |-> "temporal_decay", project_state |-> call.project_state,
                messages |-> call.messages, timestamp |-> now - distance,
                result |-> temporal_decay(now - distance, now)]
    /\ UNCHANGED <<now, files, pc, locals, states_at_start, passes>>

NextCall ==
    \/ \E distance \in DecayDistances : CallTemporalDecay(distance)
    \/ CallDetectPhase
    \/ CallCheckAnomalies
    \/ CallCreateState
    \/ CallUpdateActivityCounts
    \/ \E new_phase \in NewPhases : CallTransition(new_phase)
    \/ \E with_state \in BOOLEAN : CallComputeRelevance(with_state)

SpecCall == InitCall /\ [][NextCall]_vars

(* ------------------------------------------------------------------ *)
(* Direct calls of DigestGenerator.generate on long ranked lists      *)
(* ------------------------------------------------------------------ *)
MaxRanked == 22

(* the batches of the call: the i-th message is the i-th of a repeated run
   of templates, all arrived at Now0 *)
Mixes ==
    { << Tmpl("ivan", "c1", {}, {"alice"}, FALSE, TRUE, FALSE, 0, TRUE) >>,
      << Tmpl("ivan", "c1", {}, {}, FALSE, FALSE, TRUE, 1, TRUE),
         Tmpl("carol", "c1", {}, {}, FALSE, FALSE, FALSE, Day, TRUE) >>,
      << Tmpl("carol", NoChannel, {}, {}, FALSE, FALSE, FALSE, 0, TRUE),
         Tmpl("alice", NoChannel, {"k2"}, {"bob"}, FALSE, FALSE, FALSE, 0, TRUE),
         Tmpl("carol", "c1", {}, {}, FALSE, FALSE, FALSE, 1, TRUE) >> }

GenMessages(mix, n) ==
    [i \in 1..n |-> Message(i, mix[((i - 1) % Len(mix)) + 1], Now0)]

GenPhases == {"active", "review"}

InitGen ==
    /\ now = Now0
    /\ messages_json = <<>>
    /\ user_project_states_json = <<>>
    /\ pc = [u \in Users |-> "idle"]
    /\ messages = [u \in Users |-> <<>>]
    /\ loaded_states = [u \in Users |-> <<>>]
    /\ user_states = [u \in Users |-> <<>>]
    /\ ranked_messages = [u \in Users |-> <<>>]
    /\ digest = [u \in Users |-> NoDigest]
    /\ existing = [u \in Users |-> <<>>]
    /\ states_at_start = [u \in Users |-> <<>>]
    /\ passes = 0
    /\ \E u \in Users, ph \in GenPhases, mix \in Mixes, n \in 0..MaxRanked :
          call = [op |-> "ranked", user_id |-> u,
                  ranked |-> filter_and_rank_messages(
                                 u, load_messages(GenMessages(mix, n), Now0 - Day),
                                 <<State(u, "p1", ph, Now0, 0)>>, projects_json,
                                 user_roles_of(users_json), now)]

CallGenerate ==
    /\ call.op = "ranked"
    /\ call' = [op |-> "generate", user_id |-> call.user_id, ranked |-> call.ranked,
                result |-> generate(call.ranked, call.user_id, now)]
    /\ UNCHANGED <<now, files, pc, locals, states_at_start, passes>>

NextGen == CallGenerate

SpecGen == InitGen /\ [][NextGen]_vars

(* ------------------------------------------------------------------ *)
(* generate_digest on one active record and one urgent mention        *)
(* ------------------------------------------------------------------ *)
UrgentMentions ==
    {Tmpl(sender, "c1", {}, {"alice"}, FALSE, TRUE, is_blocker, age, TRUE) :
        sender \in {"ivan", "carol"}, is_blocker \in BOOLEAN, age \in 0..Day}

InitUrgentMention ==
    /\ now = Now0
    /\ \E t \in UrgentMentions : messages_json = <<Message(1, t, Now0)>>
    /\ user_project_states_json = <<State("alice", "p1", "active", Now0 - Week, 0)>>
    /\ pc = [u \in Users |-> "idle"]
    /\ messages = [u \in Users |-> <<>>]
    /\ loaded_states = [u \in Users |-> <<>>]
    /\ user_states = [u \in Users |-> <<>>]
    /\ ranked_messages = [u \in Users |-> <<>>]
    /\ digest = [u \in Users |-> NoDigest]
    /\ existing = [u \in Users |-> <<>>]
    /\ states_at_start = [u \in Users |-> <<>>]
    /\ call = NoCall
    /\ passes = 0

NextUrgentMention ==
    \/ \E u \in Users, h \in HoursBackChoices : GenerateDigest(u, h)
    \/ \E u \in Users : Step(u)

SpecUrgentMention == InitUrgentMention /\ [][NextUrgentMention]_vars

(* ------------------------------------------------------------------ *)
(* generate_digest, call after call, on a done record and an anomaly   *)
(* ------------------------------------------------------------------ *)
Anomalies ==
    { Tmpl("ivan", "c1", {}, {"alice"}, FALSE, TRUE, FALSE, 0, TRUE),
      Tmpl("ivan", "c1", {}, {}, FALSE, FALSE, TRUE, 1, TRUE),
      Tmpl("carol", "c1", {}, {"alice"}, FALSE, FALSE, FALSE, 0, TRUE) }

InitReactivation ==
    /\ now = Now0
    /\ \E t \in Anomalies : messages_json = <<Message(1, t, Now0)>>
    /\ \E lc \in {Now0 - 14 * Day, Now0 - 15 * Day} :
          user_project_states_json = <<State("alice", "p1", "done", lc, 0)>>
    /\ pc = [u \in Users |-> "idle"]
    /\ messages = [u \in Users |-> <<>>]
    /\ loaded_states = [u \in Users |-> <<>>]
    /\ user_states = [u \in Users |-> <<>>]
    /\ ranked_messages = [u \in Users |-> <<>>]
    /\ digest = [u \in Users |-> NoDigest]
    /\ existing = [u \in Users |-> <<>>]
    /\ states_at_start = [u \in Users |-> <<>>]
    /\ call = NoCall
    /\ passes = 0

NextReactivation ==
    \/ \E u \in Users, h \in HoursBackChoices : GenerateDigest(u, h)
    \/ \E u \in Users : Step(u)

SpecReactivation == InitReactivation /\ [][NextReactivation]_vars

(* ------------------------------------------------------------------ *)
(* generate_digest, call after call, from an empty file of states     *)
(* ------------------------------------------------------------------ *)
FirstMentions ==
    { Tmpl("ivan", "c1", {}, {"alice"}, FALSE, TRUE, FALSE, 0, TRUE),
      Tmpl("carol", "c1", {}, {"alice"}, FALSE, FALSE, FALSE, 1, TRUE),
      Tmpl("carol", "c1", {}, {}, FALSE, FALSE, FALSE, 0, TRUE) }

InitFirstMention ==
    /\ now = Now0
    /\ \E n \in 1..2 : \E ts \in [1..n -> FirstMentions] :
          messages_json = [i \in 1..n |-> Message(i, ts[i], Now0)]
    /\ user_project_states_json = <<>>
    /\ pc = [u \in Users |-> "idle"]
    /\ messages = [u \in Users |-> <<>>]
    /\ loaded_states = [u \in Users |-> <<>>]
    /\ user_states = [u \in Users |-> <<>>]
    /\ ranked_messages = [u \in Users |-> <<>>]
    /\ digest = [u \in Users |-> NoDigest]
    /\ existing = [u \in Users |-> <<>>]
    /\ states_at_start = [u \in Users |-> <<>>]
    /\ call = NoCall
    /\ passes = 0

NextFirstMention ==
    \/ \E u \in Users, h \in HoursBackChoices : GenerateDigest(u, h)
    \/ \E u \in Users : Step(u)

SpecFirstMention == InitFirstMention /\ [][NextFirstMention]_vars

(* ------------------------------------------------------------------ *)
(* Properties                                                         *)
(* ------------------------------------------------------------------ *)
stored_state(user_id, project_id) ==
    states_dict_get(load_user_states(user_project_states_json, user_id), project_id)

Mentions(user_id, ms) == \E i \in 1..Len(ms) : user_id \in ms[i].mentions
UrgentOrBlocker(ms) == \E i \in 1..Len(ms) : ms[i].is_urgent \/ ms[i].is_blocker

(* C1: when a call has returned, every record that was loaded at its start is
   stored with phase review if check_anomalies fires on it (counts updated,
   phase as loaded), and with the phase detect_phase gives for the record
   with its counts updated otherwise; a record loaded as done whose project
   has a message that mentions the user or is urgent or a blocker is stored
   as review whatever detect_phase gives. *)
C1_PersistedPhase ==
    \A u \in Users : pc[u] = "returned" =>
        \A i \in 1..Len(loaded_states[u]) :
            LET r == loaded_states[u][i]
                batch == messages_of(projects_json, messages[u], r.project_id)
                counted == update_activity_counts(r, batch, now)
                own == SelectSeq(batch, LAMBDA m : m.sender = u)
                stored == stored_state(u, r.project_id)
            IN /\ stored.phase = IF check_anomalies(counted, batch) THEN "review"
                                 ELSE detect_phase(counted, own, now)
               /\ (r.phase = "done" /\ (Mentions(u, batch) \/ UrgentOrBlocker(batch)))
                      => stored.phase = "review"

C1_Witness ==
    \E u \in Users :
        /\ pc[u] = "returned"
        /\ \E i \in 1..Len(loaded_states[u]) :
              LET r == loaded_states[u][i]
                  batch == messages_of(projects_json, messages[u], r.project_id)
              IN /\ r.phase = "done"
                 /\ UrgentOrBlocker(batch)
                 /\ now - r.last_contributed >= Fortnight
                 /\ ~Exists(batch, LAMBDA m : m.sender = u)
                 /\ stored_state(u, r.project_id).phase = "review"

(* whole days from a timestamp to now *)
WholeDays(from, to) ==
    CHOOSE d \in -1..(MaxNow \div Day + 1) : d * Day <= to - from /\ to - from < (d + 1) * Day

(* C2: detect_phase depends on the phase, messages_past_week and the whole
   days since last_contributed only, by the first rule that matches: 14 days
   or more give done; else no message and phase active give review; else 3
   messages or more give active; else 1 or 2 messages give review; else the
   phase stays. *)
C2_DetectPhaseRules ==
    call.op = "detect_phase" =>
        LET st == call.project_state
            days == WholeDays(st.last_contributed, now)
            n == st.messages_past_week
        IN call.result =
              CASE days >= 14 -> "done"
                [] days < 14 /\ n = 0 /\ st.phase = "active" -> "review"
                [] days < 14 /\ n >= 3 -> "active"
                [] days < 14 /\ n \in {1, 2} -> "review"
                [] OTHER -> st.phase

C2_Witness ==
    /\ call.op = "detect_phase"
    /\ call.project_state.messages_past_week >= 3
    /\ now - call.project_state.last_contributed = Fortnight
    /\ call.messages # <<>>
    /\ call.result = "done"

(* C3: check_anomalies is true exactly when the record is done and some
   message mentions the record's user or is urgent or is a blocker. *)
C3_CheckAnomalies ==
    call.op = "check_anomalies" =>
        (call.result <=>
            /\ call.project_state.phase = "done"
            /\ \/ Mentions(call.project_state.user_id, call.messages)
               \/ UrgentOrBlocker(call.messages))

C3_Witness ==
    /\ call.op = "check_anomalies"
    /\ call.project_state.phase = "active"
    /\ \E i \in 1..Len(call.messages) :
          /\ call.messages[i].is_urgent
          /\ call.project_state.user_id \in call.messages[i].mentions
    /\ call.result = FALSE

Ranked == {"generate", "save_user_states", "save_user_states_write", "save_digest",
           "returned"}
NotYetSaved == {"load_inputs", "update_project_states", "filter_and_rank", "generate",
                "save_user_states", "save_user_states_write"}

InRanked(u, m) == \E i \in 1..Len(ranked_messages[u]) : ranked_messages[u][i].message = m

state_of_message(u, m) ==
    states_dict_get(user_states[u], extract_project(projects_json, m))

(* C4: the ranked output holds no fetched message twice and holds exactly the
   fetched messages whose score is positive; a message is left out only when
   the record of its project is done after the update step. *)
C4_RankedExactlyPositive ==
    \A u \in Users : pc[u] \in Ranked =>
        LET ranked == ranked_messages[u] IN
        /\ \A i, j \in 1..Len(ranked) :
               ranked[i].message.id = ranked[j].message.id => i = j
        /\ \A i \in 1..Len(ranked) : ranked[i].message \in Range(messages[u])
        /\ \A k \in 1..Len(messages[u]) :
               LET m == messages[u][k] IN
               /\ InRanked(u, m) <=>
                     ScorePositive(compute_relevance(m, state_of_message(u, m), u,
                                                     user_roles_of(users_json), now))
               /\ ~InRanked(u, m) <=> state_of_message(u, m).phase = "done"

C4_Witness ==
    \E u \in Users :
        /\ pc[u] = "returned"
        /\ \E k \in 1..Len(messages[u]) :
              /\ extract_project(projects_json, messages[u][k]) = NoProject
              /\ InRanked(u, messages[u][k])
        /\ \E k \in 1..Len(messages[u]) :
              /\ state_of_message(u, messages[u][k]).phase = "done"
              /\ ~InRanked(u, messages[u][k])

(* C5: the steps of a call run in the order load, update, score, assemble,
   persist: the file of states is as it was at the start until the states are
   saved, and a message is scored against, and paired with, the record of
   its project as updated in this call, which is the record then stored. *)
C5_ScoredAgainstUpdated ==
    \A u \in Users :
        /\ pc[u] \in NotYetSaved => user_project_states_json = states_at_start[u]
        /\ pc[u] = "update_project_states" =>
               user_states[u] = loaded_states[u] /\ ranked_messages[u] = <<>>
        /\ pc[u] \in {"filter_and_rank", "generate"} => digest[u] = NoDigest
        /\ pc[u] \in Ranked =>
               \A i \in 1..Len(ranked_messages[u]) :
                   LET x == ranked_messages[u][i] IN
                   /\ x.project_state = state_of_message(u, x.message)
                   /\ x.score = compute_relevance(x.message, state_of_message(u, x.message),
                                                  u, user_roles_of(users_json), now)
                   /\ (pc[u] = "returned" /\ x.project_state # NoState) =>
                          x.project_state = stored_state(u, x.project_state.project_id)

C5_Witness ==
    \E u \in Users :
        /\ pc[u] = "returned"
        /\ \E i \in 1..Len(ranked_messages[u]) :
              LET x == ranked_messages[u][i]
                  was == states_dict_get(loaded_states[u],
                                         extract_project(projects_json, x.message))
              IN /\ was # NoState
                 /\ x.project_state.phase # was.phase
                 /\ x.project_state.messages_past_week # was.messages_past_week

(* C6: when a call has returned, every record loaded at its start and every
   record created in it is in the file of states, as updated, whether or not
   a message of its project is in the batch or in the ranked output. *)
C6_FullSetPersisted ==
    \A u \in Users : pc[u] = "returned" =>
        /\ \A i \in 1..Len(loaded_states[u]) :
               LET pid == loaded_states[u][i].project_id IN
               /\ stored_state(u, pid) # NoState
               /\ stored_state(u, pid) = states_dict_get(user_states[u], pid)
        /\ \A k \in 1..Len(messages[u]) :
               LET pid == extract_project(projects_json, messages[u][k]) IN
               pid # NoProject => stored_state(u, pid) # NoState
        /\ Range(user_states[u]) = Range(load_user_states(user_project_states_json, u))

C6_Witness ==
    \E u \in Users :
        /\ pc[u] = "returned"
        /\ \E i \in 1..Len(loaded_states[u]) :
              LET r == loaded_states[u][i] IN
              /\ messages_of(projects_json, messages[u], r.project_id) = <<>>
              /\ stored_state(u, r.project_id).phase # r.phase
        /\ \E k \in 1..Len(messages[u]) :
              LET pid == extract_project(projects_json, messages[u][k]) IN
              /\ pid # NoProject
              /\ states_dict_get(loaded_states[u], pid) = NoState
              /\ stored_state(u, pid) # NoState

(* C7: when a collaborator call of generate_digest has failed, the file of
   states is as it was when the call began. *)
C7_NoPartialPersistence ==
    \A u \in Users : pc[u] = "failed" => user_project_states_json = states_at_start[u]

(* C8: a message with a malformed timestamp does not abort the call. *)
C8_MalformedMessageSkipped ==
    \A u \in Users : pc[u] # "value_error"

(* C9: when the calls for two users overlap, the write of one user's states
   leaves the stored records of the other user as they are. *)
C9_IndependentUsers ==
    [][\A u \in Users :
          (pc[u] = "save_user_states_write" /\ pc'[u] = "save_digest") =>
              \A v \in Users \ {u} :
                  load_user_states(user_project_states_json', v)
                      = load_user_states(user_project_states_json, v)]_vars

NoDuplicates(keys) == \A i, j \in 1..Len(keys) : keys[i] = keys[j] => i = j

(* C10: the file of states never holds two records with the same (user,
   project), and the updated set of a call never holds two records of the
   same project. *)
C10_OneRecordPerKey ==
    /\ NoDuplicates([i \in 1..Len(user_project_states_json) |->
                        StateKey(user_project_states_json[i])])
    /\ \A u \in Users :
          NoDuplicates([i \in 1..Len(user_states[u]) |-> user_states[u][i].project_id])

C10_Witness ==
    \E u \in Users :
        /\ pc[u] = "returned"
        /\ Len(loaded_states[u]) = 1
        /\ Len(user_states[u]) = 2
        /\ Len(user_project_states_json) = 3

stored_in(file, user_id, project_id) ==
    states_dict_get(load_user_states(file, user_id), project_id)

MaxOf(S) == CHOOSE x \in S : \A y \in S : y <= x

OwnTimestamps(u, batch) ==
    {batch[i].timestamp : i \in {j \in 1..Len(batch) : batch[j].sender = u}}

(* C11: no step lowers the last_contributed of a stored record, and the write
   of a call's states stores, for every record loaded at its start, the
   latest of the record's last_contributed and the timestamps of the user's
   own messages of the project in the batch. *)
C11_LastContributedMonotone ==
    [][/\ \A i \in 1..Len(user_project_states_json) :
              LET st == user_project_states_json[i]
                  after == stored_in(user_project_states_json', st.user_id, st.project_id)
              IN after # NoState => after.last_contributed >= st.last_contributed
       /\ \A u \in Users :
              (pc[u] = "save_user_states_write" /\ pc'[u] = "save_digest") =>
                  \A i \in 1..Len(loaded_states[u]) :
                      LET r == loaded_states[u][i]
                          batch == messages_of(projects_json, messages[u], r.project_id)
                      IN stored_in(user_project_states_json', u, r.project_id).last_contributed
                             = MaxOf({r.last_contributed} \cup OwnTimestamps(u, batch))]_vars

C11_Witness ==
    \E u \in Users :
        /\ pc[u] = "returned"
        /\ \E i \in 1..Len(loaded_states[u]) :
              LET r == loaded_states[u][i]
                  batch == messages_of(projects_json, messages[u], r.project_id)
              IN /\ \E t \in OwnTimestamps(u, batch) : t < r.last_contributed
                 /\ stored_state(u, r.project_id).last_contributed = r.last_contributed

(* C12: no step removes a (user, project) key from the file of states. *)
C12_NeverDeleted ==
    [][\A i \in 1..Len(user_project_states_json) :
          \E j \in 1..Len(user_project_states_json') :
              StateKey(user_project_states_json'[j])
                  = StateKey(user_project_states_json[i])]_vars

C12_Witness ==
    \E u \in Users :
        /\ pc[u] = "returned"
        /\ Len(states_at_start[u]) = Len(user_project_states_json)
        /\ \E v \in Users \ {u} : stored_state(v, "p1") # NoState
        /\ \E i \in 1..Len(loaded_states[u]) :
              LET r == loaded_states[u][i] IN
              /\ r.phase # "done"
              /\ messages_of(projects_json, messages[u], r.project_id) = <<>>
              /\ stored_state(u, r.project_id).phase = "done"

Updated == {"filter_and_rank", "generate", "save_user_states", "save_user_states_write",
            "save_digest", "returned"}

Involves(u, m) == u \in m.mentions \/ m.sender = u

BatchProjects(u) ==
    {extract_project(projects_json, messages[u][k]) : k \in 1..Len(messages[u])}
        \ {NoProject}

RecordsOf(u, pid) == {i \in 1..Len(user_states[u]) : user_states[u][i].project_id = pid}

(* C13: after the update step, every project with a message in the batch and
   no loaded record has exactly one record, made from the first message of
   the project in fetch order that mentions the user or is from the user, or
   else from the project's first message; the record is active exactly when
   some message of the project mentions the user or is from the user, and
   review otherwise. *)
C13_OneNewRecordPerProject ==
    \A u \in Users : pc[u] \in Updated =>
        \A pid \in BatchProjects(u) :
            states_dict_get(loaded_states[u], pid) = NoState =>
                LET batch == messages_of(projects_json, messages[u], pid)
                    hits == {i \in 1..Len(batch) : Involves(u, batch[i])}
                    trigger == IF hits = {} THEN batch[1]
                               ELSE batch[CHOOSE i \in hits : \A j \in hits : i <= j]
                    rec == states_dict_get(user_states[u], pid)
                IN /\ Cardinality(RecordsOf(u, pid)) = 1
                   /\ rec.user_id = u
                   /\ rec.last_contributed = trigger.timestamp
                   /\ rec.messages_past_week = (IF trigger.sender = u THEN 1 ELSE 0)
                   /\ rec.phase = (IF hits = {} THEN "review" ELSE "active")

C13_Witness ==
    \E u \in Users :
        /\ pc[u] = "returned"
        /\ \E pid \in BatchProjects(u) :
              LET batch == messages_of(projects_json, messages[u], pid) IN
              /\ states_dict_get(loaded_states[u], pid) = NoState
              /\ Len(batch) = 2
              /\ ~Involves(u, batch[1])
              /\ Involves(u, batch[2])
              /\ stored_state(u, pid).phase = "active"

(* C14: create_state gives a record that is active when the trigger message
   mentions the user or is from the user and review otherwise, whose
   last_contributed is the trigger's timestamp and whose messages_past_week
   is 1 when the user sent the trigger and 0 otherwise. *)
C14_CreateState ==
    call.op = "create_state" =>
        LET u == call.project_state.user_id
            t == call.messages[1]
            r == call.result
        IN /\ r.user_id = u
           /\ r.project_id = call.project_state.project_id
           /\ r.channels = call.project_state.channels
           /\ r.phase = (IF u \in t.mentions \/ t.sender = u THEN "active" ELSE "review")
           /\ r.last_contributed = t.timestamp
           /\ r.messages_past_week = (IF t.sender = u THEN 1 ELSE 0)

C14_Witness ==
    /\ call.op = "create_state"
    /\ call.project_state.user_id \in call.messages[1].mentions
    /\ call.messages[1].sender # call.project_state.user_id
    /\ call.result.phase = "active"
    /\ call.result.messages_past_week = 0

(* C15: update_activity_counts sets messages_past_week to the number of the
   given messages that are from the record's user and not older than 7 days;
   the stored count and the messages of other senders play no part. *)
C15_UpdateActivityCounts ==
    call.op = "update_activity_counts" =>
        call.result.messages_past_week =
            Cardinality({i \in 1..Len(call.messages) :
                            /\ call.messages[i].sender = call.project_state.user_id
                            /\ now - call.messages[i].timestamp <= Week})

C15_Witness ==
    /\ call.op = "update_activity_counts"
    /\ call.project_state.messages_past_week >= 3
    /\ Len(call.messages) = 2
    /\ \A i \in 1..2 : call.messages[i].sender = call.project_state.user_id
    /\ now - call.messages[1].timestamp = Week
    /\ now - call.messages[2].timestamp > Week
    /\ call.result.messages_past_week = 1

(* C16: transition to a phase outside active, review, done, blocked ends in
   the invalid-phase error, gives no record and changes nothing. *)
C16_InvalidPhaseRejected ==
    [][(call.op = "args" /\ call'.op = "transition"
           /\ call'.new_phase \notin {"active", "review", "done", "blocked"}) =>
          /\ call'.result = InvalidPhase
          /\ call'.project_state = call.project_state
          /\ UNCHANGED <<now, files, pc, locals, states_at_start, passes>>]_vars

C16_Witness ==
    /\ call.op = "transition"
    /\ call.new_phase = "bogus"
    /\ call.result = InvalidPhase

(* C17: transition to any of active, review, done, blocked succeeds from any
   phase and gives a record with the new phase and every other field of the
   input, which is itself left as it was. *)
C17_TransitionUnconditional ==
    [][(call.op = "args" /\ call'.op = "transition"
           /\ call'.new_phase \in {"active", "review", "done", "blocked"}) =>
          /\ call'.result = [call.project_state EXCEPT !.phase = call'.new_phase]
          /\ call'.project_state = call.project_state]_vars

C17_Witness ==
    /\ call.op = "transition"
    /\ call.project_state.phase = "done"
    /\ call.new_phase = "blocked"
    /\ call.result.phase = "blocked"
    /\ call.result.messages_past_week = call.project_state.messages_past_week
    /\ call.result.last_contributed = call.project_state.last_contributed

(* C18: with no record the score is 0.3; with a done record it is 0.0; with a
   blocked record and a message that is not a blocker it is 0.1, whatever
   the other attributes of the message. *)
C18_ScorerGates ==
    call.op = "compute_relevance" =>
        LET st == call.scored_with
            msg == call.messages[1]
            r == call.result
        IN /\ st = NoState => (r.k = 0 /\ r.m * 10 = 3 * ScoreDen)
           /\ (st # NoState /\ st.phase = "done") => r.m = 0
           /\ (st # NoState /\ st.phase = "blocked" /\ ~msg.is_blocker) =>
                  (r.k = 0 /\ r.m * 10 = ScoreDen)

C18_Witness ==
    /\ call.op = "compute_relevance"
    /\ call.scored_with # NoState
    /\ call.scored_with.phase = "done"
    /\ call.messages[1].is_urgent
    /\ call.messages[1].is_blocker
    /\ call.scored_with.user_id \in call.messages[1].mentions
    /\ call.result.m = 0

SenderIsHighPriority(sender) ==
    \E i \in 1..Len(users_json) :
        users_json[i].user_id = sender /\ users_json[i].role \in {"pm", "engineering_lead"}

Ungated(st, msg) ==
    /\ st # NoState
    /\ st.phase # "done"
    /\ ~(st.phase = "blocked" /\ ~msg.is_blocker)

(* C19: when no gate applies the score is decay x 1.5 if urgent x 1.3 if
   blocker x 1.8 if the user is mentioned x min(1 + 0.05 n, 1.5) x 2 if the
   sender is a pm or engineering lead, halved under review: it is never
   negative, the activity boost is 1.5 from n = 10 on, and a review record
   gives half of what the same record gives as active. *)
C19_ScoreProduct ==
    (call.op = "compute_relevance" /\ Ungated(call.scored_with, call.messages[1])) =>
        LET st == call.scored_with
            msg == call.messages[1]
            r == call.result
            n == st.messages_past_week
            age == IF now - msg.timestamp < 0 THEN 0 ELSE now - msg.timestamp
            as_active == compute_relevance(msg, [st EXCEPT !.phase = "active"], st.user_id,
                                           user_roles_of(users_json), now)
        IN /\ r.m = (IF msg.is_urgent THEN 15 ELSE 10)
                      * (IF msg.is_blocker THEN 13 ELSE 10)
                      * (IF st.user_id \in msg.mentions THEN 18 ELSE 10)
                      * (IF n >= 10 THEN 150 ELSE 100 + 5 * n)
                      * (IF SenderIsHighPriority(msg.sender) THEN 2 ELSE 1)
           /\ r.k = age + (IF st.phase = "review" THEN 1 ELSE 0)
           /\ r.m >= 0
           /\ st.phase = "review" => (r.m = as_active.m /\ r.k = as_active.k + 1)

C19_Witness ==
    /\ call.op = "compute_relevance"
    /\ call.scored_with # NoState
    /\ call.scored_with.phase = "review"
    /\ call.scored_with.messages_past_week > 10
    /\ call.messages[1].is_urgent
    /\ call.scored_with.user_id \in call.messages[1].mentions
    /\ SenderIsHighPriority(call.messages[1].sender)
    /\ call.result.m = 15 * 10 * 18 * 150 * 2
    /\ call.result.k = 1

FetchPosition(u, m) == CHOOSE k \in 1..Len(messages[u]) : messages[u][k] = m

(* C20: the ranked output is in descending order of score, and two messages
   of the same score are in the order in which they were fetched. *)
C20_SortedStable ==
    \A u \in Users : pc[u] \in Ranked =>
        \A i, j \in 1..Len(ranked_messages[u]) :
            i < j =>
                LET a == ranked_messages[u][i]
                    b == ranked_messages[u][j]
                IN /\ ~ScoreGt(b.score, a.score)
                   /\ ScoreEq(a.score, b.score) =>
                          FetchPosition(u, a.message) < FetchPosition(u, b.message)

C20_Witness ==
    \E u \in Users :
        /\ pc[u] = "returned"
        /\ Len(ranked_messages[u]) = 2
        /\ ScoreEq(ranked_messages[u][1].score, ranked_messages[u][2].score)
        /\ ranked_messages[u][1].message = messages[u][1]
        /\ ranked_messages[u][2].message = messages[u][2]

RECURSIVE ItemsOfGroups(_)
ItemsOfGroups(groups) ==
    IF groups = <<>> THEN <<>>
    ELSE groups[1].items \o ItemsOfGroups(Tail(groups))

ItemsOfDigest(d) == ItemsOfGroups(d.urgent) \o ItemsOfGroups(d.active) \o ItemsOfGroups(d.review)

(* C21: the digest is made of the first max_items entries of the ranked list
   and of no other: each of them gives one item, so that the urgent, active
   and review sections never hold more than max_items items together. *)
C21_TruncatedToMaxItems ==
    call.op = "generate" =>
        LET items == ItemsOfDigest(call.result)
            taken == IF Len(call.ranked) < max_items THEN Len(call.ranked) ELSE max_items
        IN /\ Len(items) <= max_items
           /\ Len(items) = taken
           /\ {items[i].message_id : i \in 1..Len(items)}
                  = {call.ranked[i].message.id : i \in 1..taken}

C21_Witness ==
    /\ call.op = "generate"
    /\ Len(call.ranked) > max_items
    /\ Len(ItemsOfDigest(call.result)) = max_items
    /\ call.result.urgent # <<>>
    /\ call.result.active # <<>>

(* the call of the user whose one record is active, without a message in the
   past week and last contributed to a week ago, over one urgent message of
   another sender that mentions the user *)
OneUrgentMention(u) ==
    /\ pc[u] = "returned"
    /\ Len(loaded_states[u]) = 1
    /\ loaded_states[u][1].phase = "active"
    /\ loaded_states[u][1].messages_past_week = 0
    /\ loaded_states[u][1].last_contributed = now - Week
    /\ Len(messages[u]) = 1
    /\ messages[u][1].is_urgent
    /\ u \in messages[u][1].mentions
    /\ messages[u][1].sender # u
    /\ extract_project(projects_json, messages[u][1]) = loaded_states[u][1].project_id

One == [m |-> ScoreDen, k |-> 0]

(* C22 as claimed: the message is ranked with a score above 1.0 and the
   record is stored as review. *)
C22_ScoreAboveOne ==
    \A u \in Users : OneUrgentMention(u) =>
        /\ Len(ranked_messages[u]) = 1
        /\ ScoreGt(ranked_messages[u][1].score, One)
        /\ stored_state(u, loaded_states[u][1].project_id).phase = "review"

(* C22 amended: the message is ranked with the score decay x 1.5 x 1.8, x 1.3
   for a blocker, x 2 for a pm or engineering lead, x 0.5 for the review
   phase the record is given in the same call, which is above 1.0 only
   while the decay times the other boosts is above 1 / 1.35; the record is
   stored as review. *)
C22_ScoreOfUrgentMention ==
    \A u \in Users : OneUrgentMention(u) =>
        LET msg == messages[u][1]
            role == IF SenderIsHighPriority(msg.sender) THEN 2 ELSE 1
            blocker == IF msg.is_blocker THEN 13 ELSE 10
            age == now - msg.timestamp
        IN /\ Len(ranked_messages[u]) = 1
           /\ ranked_messages[u][1].message = msg
           /\ ranked_messages[u][1].score.m = 15 * blocker * 18 * 100 * role
           /\ ranked_messages[u][1].score.k = age + 1
           /\ ScoreGt(ranked_messages[u][1].score, One)
                  <=> 135 * blocker * role > 1000 * Pow2(age)
           /\ stored_state(u, loaded_states[u][1].project_id).phase = "review"

C22_Witness ==
    \E u \in Users :
        /\ OneUrgentMention(u)
        /\ ~SenderIsHighPriority(messages[u][1].sender)
        /\ now - messages[u][1].timestamp = 1
        /\ ~ScoreGt(ranked_messages[u][1].score, One)
        /\ stored_state(u, "p1").phase = "review"

DecayLeq(a, b) == a.num = 0 \/ (b.num = 1 /\ a.exp >= b.exp)

(* C23: temporal_decay does not fail; its value is in [0, 1], is 1 when the
   timestamp is now or later, and is not above the value of any later
   timestamp. *)
C23_DecayClamped ==
    call.op = "temporal_decay" =>
        LET r == call.result IN
        /\ r # OverflowError
        /\ r.num \in {0, 1} /\ r.exp >= 0
        /\ call.timestamp >= now => r = [num |-> 1, exp |-> 0]
        /\ \A d \in DecayDistances :
               (now - d <= call.timestamp /\ temporal_decay(now - d, now) # OverflowError)
                   => DecayLeq(temporal_decay(now - d, now), r)

(* the last_contributed of a loaded record once the batch is counted *)
UpdatedLastContributed(u, r) ==
    MaxOf({r.last_contributed}
          \cup OwnTimestamps(u, messages_of(projects_json, messages[u], r.project_id)))

(* C24: a loaded record that is not done and whose last_contributed, once
   updated, is 14 days old or more is given the phase done, and no message
   of its project is in the ranked output of the same call, urgent, blocker
   and mentioning messages included. *)
C24_DoneInSamePass ==
    \A u \in Users : pc[u] \in Ranked =>
        \A i \in 1..Len(loaded_states[u]) :
            LET r == loaded_states[u][i]
                batch == messages_of(projects_json, messages[u], r.project_id)
            IN (r.phase # "done" /\ now - UpdatedLastContributed(u, r) >= 14 * Day) =>
                  /\ states_dict_get(user_states[u], r.project_id).phase = "done"
                  /\ \A k \in 1..Len(batch) : ~InRanked(u, batch[k])
                  /\ pc[u] = "returned" => stored_state(u, r.project_id).phase = "done"

C24_Witness ==
    \E u \in Users :
        /\ pc[u] = "returned"
        /\ \E i \in 1..Len(loaded_states[u]) :
              LET r == loaded_states[u][i]
                  batch == messages_of(projects_json, messages[u], r.project_id)
              IN /\ r.phase = "active"
                 /\ now - UpdatedLastContributed(u, r) >= 14 * Day
                 /\ \E k \in 1..Len(batch) : batch[k].is_urgent /\ u \in batch[k].mentions
                 /\ \E k \in 1..Len(batch) : batch[k].is_blocker
                 /\ ranked_messages[u] = <<>>
                 /\ stored_state(u, r.project_id).phase = "done"

HasAnomaly(u, batch) == \E k \in 1..Len(batch) : IsAnomaly(u, batch[k])

(* C25: while the last contribution is 14 days old or more and a message
   that mentions the user or is urgent or a blocker is in the batch, each
   call flips the stored phase: a done record is stored as review, and the
   record stored as review is stored as done by the next call. *)
C25_ReactivationOnePass ==
    [][\A u \in Users :
          (pc[u] = "save_user_states_write" /\ pc'[u] = "save_digest") =>
              \A i \in 1..Len(loaded_states[u]) :
                  LET r == loaded_states[u][i]
                      batch == messages_of(projects_json, messages[u], r.project_id)
                      after == stored_in(user_project_states_json', u, r.project_id)
                  IN (now - UpdatedLastContributed(u, r) >= 14 * Day /\ HasAnomaly(u, batch)) =>
                        /\ r.phase = "done" => after.phase = "review"
                        /\ r.phase = "review" => after.phase = "done"]_vars

C25_Witness ==
    \E u \in Users :
        /\ pc[u] = "returned"
        /\ passes >= 2
        /\ \E i \in 1..Len(loaded_states[u]) :
              LET r == loaded_states[u][i]
                  batch == messages_of(projects_json, messages[u], r.project_id)
              IN /\ r.phase = "review"
                 /\ HasAnomaly(u, batch)
                 /\ stored_state(u, r.project_id).phase = "done"

CountedMessages(u, batch) ==
    Cardinality({k \in 1..Len(batch) :
                    batch[k].sender = u /\ now - batch[k].timestamp <= Week})

(* C26: no step stores a record as blocked that was not stored as blocked
   before it, and the write of a call's states leaves a blocked record
   blocked only when the user has no counted message in the project and the
   last contribution is less than 14 days old: 14 days or more give done, 3
   counted messages or more give active, 1 or 2 give review. *)
C26_NeverIntoBlocked ==
    [][/\ \A i \in 1..Len(user_project_states_json') :
              LET st == user_project_states_json'[i] IN
              st.phase = "blocked" =>
                  stored_state(st.user_id, st.project_id).phase = "blocked"
       /\ \A u \in Users :
              (pc[u] = "save_user_states_write" /\ pc'[u] = "save_digest") =>
                  \A i \in 1..Len(loaded_states[u]) :
                      LET r == loaded_states[u][i]
                          n == CountedMessages(u, messages_of(projects_json, messages[u],
                                                              r.project_id))
                          after == stored_in(user_project_states_json', u, r.project_id)
                      IN r.phase = "blocked" =>
                            after.phase =
                                IF now - UpdatedLastContributed(u, r) >= 14 * Day THEN "done"
                                ELSE IF n >= 3 THEN "active"
                                ELSE IF n > 0 THEN "review"
                                ELSE "blocked"]_vars

C26_Witness ==
    \E u \in Users :
        /\ pc[u] = "returned"
        /\ \E i \in 1..Len(loaded_states[u]) :
              LET r == loaded_states[u][i]
                  batch == messages_of(projects_json, messages[u], r.project_id)
              IN /\ r.phase = "blocked"
                 /\ CountedMessages(u, batch) = 1
                 /\ \E k \in 1..Len(batch) : batch[k].is_blocker
                 /\ stored_state(u, r.project_id).phase = "review"

(* C27: when the user has no message in the project's batch, the write of a
   call's states stores an active, review or blocked record as done if its
   last contribution is 14 days old or more, stores an active record as
   review before that, and stores a done record as done if no message of
   the batch mentions the user or is urgent or a blocker. *)
C27_SilenceLeadsToDone ==
    [][\A u \in Users :
          (pc[u] = "save_user_states_write" /\ pc'[u] = "save_digest") =>
              \A i \in 1..Len(loaded_states[u]) :
                  LET r == loaded_states[u][i]
                      batch == messages_of(projects_json, messages[u], r.project_id)
                      after == stored_in(user_project_states_json', u, r.project_id)
                  IN OwnTimestamps(u, batch) = {} =>
                        /\ (r.phase \in {"active", "review", "blocked"}
                               /\ now - r.last_contributed >= 14 * Day)
                              => after.phase = "done"
                        /\ (r.phase = "active" /\ now - r.last_contributed < 14 * Day)
                              => after.phase = "review"
                        /\ (r.phase = "done" /\ ~HasAnomaly(u, batch))
                              => after.phase = "done"
                        /\ after.last_contributed = r.last_contributed]_vars

C27_Witness ==
    \E u \in Users :
        /\ pc[u] = "returned"
        /\ passes >= 2
        /\ \E i \in 1..Len(loaded_states[u]) :
              LET r == loaded_states[u][i]
                  batch == messages_of(projects_json, messages[u], r.project_id)
              IN /\ r.phase = "review"
                 /\ OwnTimestamps(u, batch) = {}
                 /\ now - r.last_contributed = 14 * Day
                 /\ stored_state(u, r.project_id).phase = "done"

(* C28: when the messages are scored, a message has no record exactly when
   it is attributed to no project: every attributed message is scored
   against the record of its project, and the messages without a project,
   and no others, get the score 0.3 of the missing record. *)
C28_DefaultScoreOnlyUnattributed ==
    \A u \in Users : pc[u] \in Ranked =>
        /\ \A k \in 1..Len(messages[u]) :
               LET m == messages[u][k] IN
               (extract_project(projects_json, m) = NoProject)
                   <=> (state_of_message(u, m) = NoState)
        /\ \A i \in 1..Len(ranked_messages[u]) :
               LET x == ranked_messages[u][i] IN
               /\ (x.project_state = NoState)
                      <=> (extract_project(projects_json, x.message) = NoProject)
               /\ x.project_state = NoState => (x.score.k = 0 /\ x.score.m * 10 = 3 * ScoreDen)
               /\ x.project_state # NoState =>
                      x.project_state.project_id = extract_project(projects_json, x.message)

C28_Witness ==
    \E u \in Users :
        /\ pc[u] = "returned"
        /\ \E i \in 1..Len(ranked_messages[u]) :
              LET x == ranked_messages[u][i] IN
              /\ x.project_state # NoState
              /\ states_dict_get(loaded_states[u], x.project_state.project_id) = NoState
        /\ \E i \in 1..Len(ranked_messages[u]) :
              /\ ranked_messages[u][i].project_state = NoState
              /\ extract_project(projects_json, ranked_messages[u][i].message) = NoProject

(* C29: a record that an earlier call created as active from a batch in
   which the user is mentioned and has no message of their own (so with
   messages_past_week 0) is stored as review by the next call over the same
   batch: the call does not leave the user's records as it loaded them. *)
C29_CreatedActiveThenReview ==
    [][\A u \in Users :
          (pc[u] = "save_user_states_write" /\ pc'[u] = "save_digest") =>
              \A i \in 1..Len(loaded_states[u]) :
                  LET r == loaded_states[u][i]
                      batch == messages_of(projects_json, messages[u], r.project_id)
                      after == stored_in(user_project_states_json', u, r.project_id)
                  IN (/\ batch # <<>>
                      /\ r = create_new_state(u, r.project_id, batch, projects_json)
                      /\ r.phase = "active"
                      /\ r.messages_past_week = 0) =>
                        /\ after.phase = "review"
                        /\ load_user_states(user_project_states_json', u) # loaded_states[u]]_vars

C29_Witness ==
    \E u \in Users :
        /\ pc[u] = "returned"
        /\ passes >= 2
        /\ \E i \in 1..Len(loaded_states[u]) :
              LET r == loaded_states[u][i]
                  batch == messages_of(projects_json, messages[u], r.project_id)
              IN /\ batch # <<>>
                 /\ r = create_new_state(u, r.project_id, batch, projects_json)
                 /\ r.phase = "active"
                 /\ r.messages_past_week = 0
                 /\ Mentions(u, batch)
                 /\ stored_state(u, r.project_id).phase = "review"

KeysOf(file) == {StateKey(file[i]) : i \in 1..Len(file)}

(* C30: while a call for one user runs with no other call in progress, the
   stored records of every other user are those the file held when the call
   began, and the records the call loads and writes all carry the calling
   user's id. *)
C30_OtherUsersUntouched ==
    \A u \in Users :
        pc[u] # "idle" =>
            /\ \A v \in Users \ {u} :
                  load_user_states(user_project_states_json, v)
                      = load_user_states(states_at_start[u], v)
            /\ \A i \in 1..Len(loaded_states[u]) : loaded_states[u][i].user_id = u
            /\ \A i \in 1..Len(user_states[u]) : user_states[u][i].user_id = u
            /\ \A i \in 1..Len(user_project_states_json) :
                  LET st == user_project_states_json[i]
                  IN st.user_id # u =>
                        \E j \in 1..Len(states_at_start[u]) : states_at_start[u][j] = st

C30_Witness ==
    \E u \in Users :
        /\ pc[u] = "returned"
        /\ \E v \in Users \ {u} : \E i \in 1..Len(states_at_start[u]) :
              /\ states_at_start[u][i].user_id = v
              /\ <<u, states_at_start[u][i].project_id>> \in KeysOf(user_project_states_json)
        /\ KeysOf(user_project_states_json) # KeysOf(states_at_start[u])
        /\ \E i \in 1..Len(states_at_start[u]) :
              /\ states_at_start[u][i].user_id = u
              /\ stored_state(u, states_at_start[u][i].project_id) # states_at_start[u][i]

====
